---- MODULE Spec2Model ----
(***************************************************************************)
(* Model of the traversal engine of main.py: the generator function        *)
(* traverse and its two work horses traverse_tree_depth_first and          *)
(* traverse_tree_breadth_first, driven by callers that create generator    *)
(* objects, pull from them with next() and drop them.                      *)
(*                                                                         *)
(* A tree is a parent vector: node 0 is the root (ast.walk().node), nodes  *)
(* 1..Len(ast) are the other nodes and ast[i] < i is the parent of i; the  *)
(* children of a node are listed in increasing order, so every ordered     *)
(* tree shape with at most MaxNodes non-root nodes is an input.            *)
(*                                                                         *)
(* Python runs a generator from one yield to the next without interleaving *)
(* with other generators of the same thread, so one next() is one action.  *)
(***************************************************************************)
EXTENDS Naturals, Sequences, FiniteSets

VARIABLES ast, gens, heap

vars == <<ast, gens, heap>>

\* bound of the model: the number of nodes of a tree below its root
MaxNodes == 4

\* cursor.node of ast.walk()
Root == 0
\* what a walker hands back when it returns instead of yielding
NoNode == MaxNodes + 1
\* q is None
NoDeque == 0

\* the generator objects callers hold at one time: the properties are about
\* one traversal or about a pair of them
Gens == {1, 2}
\* the places a deque can live at; one per generator is enough
Addrs == {1, 2}

\* the values a caller passes for the argument 'method'; "None" is the
\* omitted argument, "bfs" stands for every unsupported string
Methods == {"None", "depth_first", "breadth_first", "bfs"}

Trees == UNION {{p \in [1..k -> 0..(k-1)] : \A i \in 1..k : p[i] < i} : k \in 0..MaxNodes}

Nodes == 1..Len(ast)

\* node.children: the children of x in child order
Children(x) == SelectSeq([i \in 1..Len(ast) |-> i], LAMBDA i : ast[i] = x)

Last(s) == s[Len(s)]
ButLast(s) == SubSeq(s, 1, Len(s) - 1)

\* a generator object that does not exist (never created, or dropped)
Absent == [status |-> "absent", method |-> "None", stack |-> <<>>,
           q |-> NoDeque, out |-> <<>>, last |-> "none", peak |-> 0]

\* no generator object either, after the caller dropped one before its end
Abandoned == [Absent EXCEPT !.last = "abandoned"]

\* the generator object a call of traverse returns: no line of the body has run
Created(m) == [status |-> "created", method |-> m, stack |-> <<>>,
               q |-> NoDeque, out |-> <<>>, last |-> "none", peak |-> 0]

\* variant: the omitted argument selects the other walker
Default_Bfs(m) == IF m = "None" THEN "breadth_first" ELSE m

\* line 68: the default of the argument 'method'
Default(m) == IF m = "None" THEN "depth_first" ELSE m

\* an activation of a walker: the cursor's node and the state of its for loop
Frame(node, len) == [node |-> node, i |-> 0, len |-> len]

----------------------------------------------------------------------------
\* depth first walker

\* traverse_tree_depth_first(node.walk()): a new activation
DfsFrame(node) == Frame(node, Len(Children(node)))

\* variant: the for loop walks the child list from its end
RECURSIVE DfsLoop_Reversed(_)
DfsLoop_Reversed(stack) ==
  IF stack = <<>> THEN [stack |-> <<>>, node |-> NoNode, peak |-> 0]
  ELSE LET f == Last(stack) IN
       IF f.i < f.len
       THEN [stack |-> [stack EXCEPT ![Len(stack)].i = f.i + 1],
             node |-> Children(f.node)[f.len - f.i],
             peak |-> Len(stack)]
       ELSE [DfsLoop_Reversed(ButLast(stack)) EXCEPT !.peak = Len(stack)]

\* run the for loops from the innermost activation on, until one of them
\* yields a child or the outermost one returns
RECURSIVE DfsLoop(_)
DfsLoop(stack) ==
  IF stack = <<>> THEN [stack |-> <<>>, node |-> NoNode, peak |-> 0]
  ELSE LET f == Last(stack) IN
       IF f.i < f.len
       THEN [stack |-> [stack EXCEPT ![Len(stack)].i = f.i + 1],
             node |-> Children(f.node)[f.i + 1],
             peak |-> Len(stack)]
       ELSE [DfsLoop(ButLast(stack)) EXCEPT !.peak = Len(stack)]

\* variant: line 89 is missing, the yielded child is not descended into
DfsResume_NoDescent(stack) == DfsLoop(stack)

\* resume after 'yield child': recurse into the child that was yielded
DfsResume(stack) ==
  LET f == Last(stack) IN DfsLoop(Append(stack, DfsFrame(Children(f.node)[f.i])))

\* first entry from traverse
DfsCall == DfsLoop(<<DfsFrame(Root)>>)

----------------------------------------------------------------------------
\* breadth first walker

\* variant: every call uses one and the same deque object
NewDeque_Shared(gs) == 1

\* the deque a fresh call allocates: an address no live generator refers to
NewDeque(gs) ==
  LET free == {a \in Addrs : \A h \in Gens : gs[h].q # a}
  IN CHOOSE a \in free : \A b \in free : a <= b

\* variant: line 107 is missing, the children of a popped node are not enqueued
RECURSIVE BfsLoop_NoExtend(_, _, _)
BfsLoop_NoExtend(stack, a, hp) ==
  LET f == Last(stack) IN
  IF f.i < f.len
  THEN IF hp[a] = <<>>
       THEN [stack |-> <<>>, node |-> NoNode, heap |-> hp, exc |-> "IndexError", peak |-> Len(stack)]
       ELSE LET node == Head(hp[a]) IN
            [stack |-> [stack EXCEPT ![Len(stack)].i = f.i + 1],
             node |-> node,
             heap |-> [hp EXCEPT ![a] = Tail(hp[a])],
             exc |-> "none", peak |-> Len(stack)]
  ELSE IF Len(hp[a]) = 0
       THEN [stack |-> <<>>, node |-> NoNode, heap |-> hp, exc |-> "none", peak |-> Len(stack)]
       ELSE BfsLoop_NoExtend(Append(stack, Frame(f.node, Len(hp[a]))), a, hp)

\* variant: the children of a popped node are put at the front of the deque
RECURSIVE BfsLoop_ExtendLeft(_, _, _)
BfsLoop_ExtendLeft(stack, a, hp) ==
  LET f == Last(stack) IN
  IF f.i < f.len
  THEN IF hp[a] = <<>>
       THEN [stack |-> <<>>, node |-> NoNode, heap |-> hp, exc |-> "IndexError", peak |-> Len(stack)]
       ELSE LET node == Head(hp[a]) IN
            [stack |-> [stack EXCEPT ![Len(stack)].i = f.i + 1],
             node |-> node,
             heap |-> [hp EXCEPT ![a] = Children(node) \o Tail(hp[a])],
             exc |-> "none", peak |-> Len(stack)]
  ELSE IF Len(hp[a]) = 0
       THEN [stack |-> <<>>, node |-> NoNode, heap |-> hp, exc |-> "none", peak |-> Len(stack)]
       ELSE BfsLoop_ExtendLeft(Append(stack, Frame(f.node, Len(hp[a]))), a, hp)

\* variant: the loop goes on as long as the deque holds a node, whatever its
\* length was when the pass started
RECURSIVE BfsLoop_Reread(_, _, _)
BfsLoop_Reread(stack, a, hp) ==
  LET f == Last(stack) IN
  IF hp[a] # <<>>
  THEN LET node == Head(hp[a]) IN
       [stack |-> [stack EXCEPT ![Len(stack)].i = f.i + 1],
        node |-> node,
        heap |-> [hp EXCEPT ![a] = Tail(hp[a]) \o Children(node)],
        exc |-> "none", peak |-> Len(stack)]
  ELSE [stack |-> <<>>, node |-> NoNode, heap |-> hp, exc |-> "none", peak |-> Len(stack)]

\* variant: the yield stands behind the for loop instead of in it, so a pull
\* drains a whole pass and yields only the node popped last
RECURSIVE DrainPass(_, _)
DrainPass(q, n) ==
  IF n = 0 \/ q = <<>> THEN q ELSE DrainPass(Tail(q) \o Children(Head(q)), n - 1)

RECURSIVE BfsLoop_YieldAfterLoop(_, _, _)
BfsLoop_YieldAfterLoop(stack, a, hp) ==
  LET f == Last(stack) IN
  IF f.i < f.len /\ Len(hp[a]) >= f.len
  THEN [stack |-> [stack EXCEPT ![Len(stack)].i = f.len],
        node |-> hp[a][f.len],
        heap |-> [hp EXCEPT ![a] = DrainPass(hp[a], f.len)],
        exc |-> "none", peak |-> Len(stack)]
  ELSE IF Len(hp[a]) = 0 \/ f.i < f.len
       THEN [stack |-> <<>>, node |-> NoNode, heap |-> hp, exc |-> "none", peak |-> Len(stack)]
       ELSE BfsLoop_YieldAfterLoop(Append(stack, Frame(f.node, Len(hp[a]))), a, hp)

\* run the for loop of the innermost activation; when it is over either
\* return through all activations or recurse with the same deque
RECURSIVE BfsLoop(_, _, _)
BfsLoop(stack, a, hp) ==
  LET f == Last(stack) IN
  IF f.i < f.len
  THEN IF hp[a] = <<>>
       THEN [stack |-> <<>>, node |-> NoNode, heap |-> hp, exc |-> "IndexError", peak |-> Len(stack)]
       ELSE LET node == Head(hp[a]) IN
            [stack |-> [stack EXCEPT ![Len(stack)].i = f.i + 1],
             node |-> node,
             heap |-> [hp EXCEPT ![a] = Tail(hp[a]) \o Children(node)],
             exc |-> "none", peak |-> Len(stack)]
  ELSE IF Len(hp[a]) = 0
       THEN [stack |-> <<>>, node |-> NoNode, heap |-> hp, exc |-> "none", peak |-> Len(stack)]
       ELSE BfsLoop(Append(stack, Frame(f.node, Len(hp[a]))), a, hp)

\* variant: the deque is seeded with the cursor's node itself
BfsCall_SeedRoot(a, hp) ==
  LET h1 == [hp EXCEPT ![a] = <<Root>>] IN
  BfsLoop(<<Frame(Root, Len(h1[a]))>>, a, h1)

\* first entry from traverse: q is None, so the deque is built from the
\* children of the cursor's node
BfsSeed(a, hp) == [hp EXCEPT ![a] = Children(Root)]

BfsCall(a, hp) ==
  LET h1 == BfsSeed(a, hp) IN
  BfsLoop(<<Frame(Root, Len(h1[a]))>>, a, h1)

----------------------------------------------------------------------------
\* the generator protocol

\* variant: a dropped generator's deque stays behind with what it held
Release_Leak(gs, hp, g) == hp

\* the deque at address a is released when g was its last holder
Release(gs, hp, g) ==
  LET a == gs[g].q IN
  IF a = NoDeque \/ \E h \in Gens \ {g} : gs[h].q = a THEN hp
  ELSE [hp EXCEPT ![a] = <<>>]

\* variant: a walker that has nothing left never returns to its caller
After_Stuck(gs, hp, g, a, stack, node, exc, peak) ==
  IF node # NoNode
  THEN [gen |-> [gs[g] EXCEPT !.status = "suspended", !.stack = stack, !.q = a,
                              !.out = Append(@, node), !.last = "node",
                              !.peak = IF peak > @ THEN peak ELSE @],
        heap |-> hp]
  ELSE IF exc = "none"
  THEN [gen |-> gs[g], heap |-> hp]
  ELSE [gen |-> [gs[g] EXCEPT !.status = "closed", !.stack = <<>>, !.q = NoDeque,
                              !.last = exc, !.peak = IF peak > @ THEN peak ELSE @],
        heap |-> Release([gs EXCEPT ![g].q = a], hp, g)]

\* the generator after a walker has run to its next yield, its return or an exception
After(gs, hp, g, a, stack, node, exc, peak) ==
  IF node # NoNode
  THEN [gen |-> [gs[g] EXCEPT !.status = "suspended", !.stack = stack, !.q = a,
                              !.out = Append(@, node), !.last = "node",
                              !.peak = IF peak > @ THEN peak ELSE @],
        heap |-> hp]
  ELSE [gen |-> [gs[g] EXCEPT !.status = "closed", !.stack = <<>>, !.q = NoDeque,
                              !.last = IF exc = "none" THEN "StopIteration" ELSE exc,
                              !.peak = IF peak > @ THEN peak ELSE @],
        heap |-> Release([gs EXCEPT ![g].q = a], hp, g)]

\* variant: an unknown selector falls back to the depth first walker
Start_Fallback(gs, hp, g) ==
  LET m == Default(gs[g].method) IN
  IF m = "breadth_first"
  THEN LET a == NewDeque(gs)
           r == BfsCall(a, hp)
       IN After(gs, r.heap, g, a, r.stack, r.node, r.exc, r.peak)
  ELSE LET r == DfsCall IN After(gs, hp, g, NoDeque, r.stack, r.node, "none", r.peak)

\* the body of traverse from its first line to the first yield
Start(gs, hp, g) ==
  LET m == Default(gs[g].method) IN
  IF m = "breadth_first"
  THEN LET a == NewDeque(gs)
           r == BfsCall(a, hp)
       IN After(gs, r.heap, g, a, r.stack, r.node, r.exc, r.peak)
  ELSE IF m = "depth_first"
  THEN LET r == DfsCall IN After(gs, hp, g, NoDeque, r.stack, r.node, "none", r.peak)
  ELSE After(gs, hp, g, NoDeque, <<>>, NoNode, "ValueError", 0)

\* a suspended generator continues behind the yield it stopped at
Resume(gs, hp, g) ==
  IF Default(gs[g].method) = "breadth_first"
  THEN LET r == BfsLoop(gs[g].stack, gs[g].q, hp)
       IN After(gs, r.heap, g, gs[g].q, r.stack, r.node, r.exc, r.peak)
  ELSE LET r == DfsResume(gs[g].stack)
       IN After(gs, hp, g, NoDeque, r.stack, r.node, "none", r.peak)

\* next(generator)
GenNext(gs, hp, g) ==
  IF gs[g].status = "created" THEN Start(gs, hp, g)
  ELSE IF gs[g].status = "suspended" THEN Resume(gs, hp, g)
  ELSE [gen |-> [gs[g] EXCEPT !.last = "StopIteration"], heap |-> hp]

----------------------------------------------------------------------------
Init ==
  /\ ast \in Trees
  /\ gens = [g \in Gens |-> Absent]
  /\ heap = [a \in Addrs |-> <<>>]

\* a caller calls traverse(ast, m) and keeps the generator object
Traverse(g, m) ==
  /\ gens[g].status = "absent"
  /\ gens' = [gens EXCEPT ![g] = Created(m)]
  /\ UNCHANGED <<ast, heap>>

\* a caller pulls the next element
Pull(g) ==
  /\ gens[g].status # "absent"
  /\ LET r == GenNext(gens, heap, g) IN
       /\ gens' = [gens EXCEPT ![g] = r.gen]
       /\ heap' = r.heap
  /\ UNCHANGED ast

\* a caller drops the generator object, finished or not
Discard(g) ==
  /\ gens[g].status # "absent"
  /\ gens' = [gens EXCEPT ![g] = IF gens[g].status = "closed" THEN Absent ELSE Abandoned]
  /\ heap' = Release(gens, heap, g)
  /\ UNCHANGED ast

Next ==
  \/ \E g \in Gens, m \in Methods : Traverse(g, m)
  \/ \E g \in Gens : Pull(g)
  \/ \E g \in Gens : Discard(g)

Spec == Init /\ [][Next]_vars

----------------------------------------------------------------------------
\* vocabulary of the properties

Range(s) == {s[i] : i \in 1..Len(s)}
NoDup(s) == \A i, j \in 1..Len(s) : s[i] = s[j] => i = j
IsPrefix(s, t) == Len(s) <= Len(t) /\ \A i \in 1..Len(s) : s[i] = t[i]

Supported(g) == Default(gens[g].method) \in {"depth_first", "breadth_first"}
IsDfs(g) == gens[g].status # "absent" /\ Default(gens[g].method) = "depth_first"
IsBfs(g) == gens[g].status # "absent" /\ Default(gens[g].method) = "breadth_first"
Exhausted(g) == gens[g].status = "closed" /\ Supported(g)

\* the nodes below x, by following child lists
RECURSIVE Descendants(_)
Descendants(x) ==
  UNION {{Children(x)[k]} \cup Descendants(Children(x)[k]) : k \in 1..Len(Children(x))}

RECURSIVE Depth(_)
Depth(x) == IF x = Root THEN 0 ELSE 1 + Depth(ast[x])

\* the textbook recursive pre-order of the subtrees of the children k.. of x
RECURSIVE PreOrderFrom(_, _)
PreOrderFrom(x, k) ==
  IF k > Len(Children(x)) THEN <<>>
  ELSE <<Children(x)[k]>> \o PreOrderFrom(Children(x)[k], 1) \o PreOrderFrom(x, k + 1)

PreOrder == PreOrderFrom(Root, 1)

\* position of a node in a sequence, 0 for a node that is not in it (the root)
Pos(s, x) == IF x \in Range(s) THEN CHOOSE i \in 1..Len(s) : s[i] = x ELSE 0
ChildIndex(x) == Pos(Children(ast[x]), x)

TypeOK ==
  /\ ast \in Trees
  /\ \A g \in Gens : gens[g].status \in {"absent", "created", "suspended", "closed"}

----------------------------------------------------------------------------
\* C1: under both strategies no node is ever yielded twice, and once the
\* enumeration is exhausted every node below the root has been yielded
\* (exactly once): nothing is revisited, nothing is skipped.
C1_ExactlyOnce ==
  \A g \in Gens : Supported(g) =>
     /\ NoDup(gens[g].out)
     /\ Range(gens[g].out) \subseteq Descendants(Root)
     /\ Exhausted(g) => Range(gens[g].out) = Descendants(Root)

C1_Witness ==
  /\ Len(ast) >= 3
  /\ \E x \in Nodes : Len(Children(x)) >= 1
  /\ IsDfs(1) /\ Exhausted(1) /\ Len(gens[1].out) = Len(ast)
  /\ IsBfs(2) /\ Exhausted(2) /\ Len(gens[2].out) = Len(ast)

\* C2: the exhausted depth first and breadth first sequences of one tree have
\* the same length, the number of descendants of the root, and the same nodes.
C2_SameLengthSameNodes ==
  \A g, h \in Gens : IsDfs(g) /\ Exhausted(g) /\ IsBfs(h) /\ Exhausted(h) =>
     /\ Len(gens[g].out) = Len(gens[h].out)
     /\ Len(gens[g].out) = Cardinality(Descendants(Root))
     /\ Range(gens[g].out) = Range(gens[h].out)

C2_Witness ==
  \E g, h \in Gens :
     /\ IsDfs(g) /\ Exhausted(g) /\ IsBfs(h) /\ Exhausted(h)
     /\ Len(gens[g].out) >= 3
     /\ gens[g].out # gens[h].out

\* C3: what depth first has yielded is at every moment the beginning of the
\* recursive pre-order of the root's descendants and at exhaustion all of it;
\* so a yielded node is followed contiguously by the nodes of its subtree.
C3_PreOrder ==
  \A g \in Gens : IsDfs(g) =>
     /\ IsPrefix(gens[g].out, PreOrder)
     /\ Exhausted(g) => gens[g].out = PreOrder
     /\ \A i \in 1..Len(gens[g].out) :
           LET sub == Descendants(gens[g].out[i]) IN
           \A j \in 1..Len(gens[g].out) :
              (i < j /\ j <= i + Cardinality(sub)) => gens[g].out[j] \in sub

C3_Witness ==
  \E g \in Gens :
     /\ IsDfs(g) /\ Exhausted(g)
     /\ Len(gens[g].out) >= 3
     /\ \E i \in 1..(Len(gens[g].out) - 1) :
           Depth(gens[g].out[i]) > Depth(gens[g].out[i + 1])

\* C4: what breadth first yields is level order: a node is yielded only after
\* all nodes of smaller depth, depths never decrease along the sequence, and
\* within a level the nodes come in the order of their parents and, under one
\* parent, in child order.
C4_LevelOrder ==
  \A g \in Gens : IsBfs(g) =>
     LET out == gens[g].out IN
     /\ \A x \in Range(out) : \A y \in Nodes : Depth(y) < Depth(x) => y \in Range(out)
     /\ \A i, j \in 1..Len(out) : i < j =>
           /\ Depth(out[i]) <= Depth(out[j])
           /\ Depth(out[i]) = Depth(out[j]) =>
                 /\ Pos(out, ast[out[i]]) <= Pos(out, ast[out[j]])
                 /\ ast[out[i]] = ast[out[j]] => ChildIndex(out[i]) < ChildIndex(out[j])

C4_Witness ==
  \E g \in Gens :
     /\ IsBfs(g) /\ Exhausted(g)
     /\ gens[g].out # PreOrder
     /\ \E x, y \in Range(gens[g].out) : Depth(x) = 2 /\ Depth(y) = 2 /\ ast[x] # ast[y]

\* C5: a generator made with an unsupported selector never yields a node;
\* its first pull raises the unsupported-strategy error (ValueError) and closes
\* it, every later pull only reports the end; it never runs a supported walker.
C5_State ==
  \A g \in Gens : (gens[g].status # "absent" /\ ~Supported(g)) =>
     /\ gens[g].out = <<>>
     /\ gens[g].stack = <<>> /\ gens[g].q = NoDeque
     /\ \/ gens[g].status = "created" /\ gens[g].last = "none"
        \/ gens[g].status = "closed" /\ gens[g].last \in {"ValueError", "StopIteration"}

C5_FirstPull ==
  \A g \in Gens :
     (gens[g].status = "created" /\ ~Supported(g) /\ gens'[g].status \notin {"created", "absent"}) =>
        /\ gens'[g].status = "closed"
        /\ gens'[g].last = "ValueError"
        /\ gens'[g].out = <<>>

C5_UnsupportedRaises == []C5_State /\ [][C5_FirstPull]_vars

C5_Witness ==
  \E g \in Gens :
     /\ gens[g].method = "bfs" /\ gens[g].status = "closed" /\ gens[g].last = "ValueError"
     /\ Len(ast) >= 2

\* C6: the call of traverse with an unsupported selector fails itself, so no
\* caller ever holds a generator object made with an unsupported selector.
C6_FailsAtCall ==
  \A g \in Gens : gens[g].status # "absent" => Supported(g)

\* the sequence a traversal with selector m yields when it is the only one and
\* is consumed to its end
RECURSIVE RunAlone(_, _, _)
RunAlone(gs, hp, k) ==
  IF gs[1].status = "closed" \/ k = 0 THEN gs[1].out
  ELSE LET r == GenNext(gs, hp, 1) IN RunAlone([gs EXCEPT ![1] = r.gen], r.heap, k - 1)

Alone(m) ==
  RunAlone([g \in Gens |-> IF g = 1 THEN Created(m) ELSE Absent],
           [a \in Addrs |-> <<>>], Len(ast) + 1)

\* C7: however the pulls on two traversals of one tree are interleaved, each
\* has yielded a beginning of what it yields when consumed alone, all of it at
\* exhaustion, and two traversals with the same strategy agree element by
\* element on what both have yielded.
C7_Independent ==
  /\ \A g \in Gens : (gens[g].status # "absent" /\ Supported(g)) =>
        /\ IsPrefix(gens[g].out, Alone(gens[g].method))
        /\ Exhausted(g) => gens[g].out = Alone(gens[g].method)
  /\ \A g, h \in Gens :
        (/\ gens[g].status # "absent" /\ gens[h].status # "absent"
         /\ Supported(g) /\ Default(gens[g].method) = Default(gens[h].method)
         /\ Len(gens[g].out) <= Len(gens[h].out)) => IsPrefix(gens[g].out, gens[h].out)

C7_Witness ==
  /\ IsBfs(1) /\ IsBfs(2)
  /\ gens[1].status = "suspended" /\ gens[2].status = "suspended"
  /\ gens[1].q # gens[2].q
  /\ Len(gens[1].out) >= 2 /\ Len(gens[2].out) = 1
  /\ heap[gens[1].q] # <<>> /\ heap[gens[1].q] # heap[gens[2].q]

\* a caller that keeps pulling: it makes one generator, never drops it, and
\* every next() it can call it does call in the end
Caller == 1

NextPull ==
  \/ \E m \in Methods : Traverse(Caller, m)
  \/ Pull(Caller)

LiveSpec == Init /\ [][NextPull]_vars /\ WF_vars(Pull(Caller))

\* C8: a traversal with a supported strategy whose caller keeps pulling
\* reaches the end of its sequence: some pull reports StopIteration.
C8_Terminates ==
  \A g \in Gens :
     (gens[g].status = "created" /\ Supported(g))
        ~> (gens[g].status = "closed" /\ gens[g].last = "StopIteration")

C8_Witness ==
  /\ Len(ast) >= 3
  /\ \E x \in Nodes : Len(Children(x)) >= 2
  /\ IsBfs(Caller) /\ Exhausted(Caller)
  /\ gens[Caller].last = "StopIteration" /\ Len(gens[Caller].out) = Len(ast)

\* C9: a traversal made without a selector and one made with depth_first
\* yield the same elements in the same order, and the same complete sequence.
C9_DefaultIsDepthFirst ==
  \A g, h \in Gens :
     (/\ gens[g].status # "absent" /\ gens[g].method = "None"
      /\ gens[h].status # "absent" /\ gens[h].method = "depth_first") =>
        /\ Len(gens[g].out) <= Len(gens[h].out) => IsPrefix(gens[g].out, gens[h].out)
        /\ Len(gens[h].out) <= Len(gens[g].out) => IsPrefix(gens[h].out, gens[g].out)
        /\ (Exhausted(g) /\ Exhausted(h)) => gens[g].out = gens[h].out

C9_Witness ==
  \E g, h \in Gens :
     /\ gens[g].method = "None" /\ gens[h].method = "depth_first"
     /\ Exhausted(g) /\ Exhausted(h)
     /\ Len(gens[g].out) >= 3
     /\ \E i \in 1..(Len(gens[g].out) - 1) : Depth(gens[g].out[i]) > Depth(gens[g].out[i + 1])

\* some node has more than one child
Branching == \E x \in Nodes \cup {Root} : Len(Children(x)) > 1

\* x or one of its ancestors below the root has a later sibling
RECURSIVE HasLaterSiblingUp(_)
HasLaterSiblingUp(x) ==
  IF x = Root THEN FALSE
  ELSE ChildIndex(x) < Len(Children(ast[x])) \/ HasLaterSiblingUp(ast[x])

\* some node with a child is followed, in child order, by a sibling of its own
\* or of one of its ancestors
EarlyParent == \E x \in Nodes : Children(x) # <<>> /\ HasLaterSiblingUp(x)

\* C10 as stated: for a branching tree the exhausted breadth first and depth
\* first sequences are different.
C10_BranchingDiffers ==
  \A g, h \in Gens :
     (IsDfs(g) /\ Exhausted(g) /\ IsBfs(h) /\ Exhausted(h) /\ Branching) =>
        gens[g].out # gens[h].out

\* C10 amended: the exhausted breadth first and depth first sequences are
\* different exactly when some node that has a child has a later sibling, or
\* has an ancestor below the root with a later sibling.
C10_DiffersIffEarlyParent ==
  \A g, h \in Gens :
     (IsDfs(g) /\ Exhausted(g) /\ IsBfs(h) /\ Exhausted(h)) =>
        (gens[g].out # gens[h].out <=> EarlyParent)

C10_Witness ==
  \E g, h \in Gens :
     /\ IsDfs(g) /\ Exhausted(g) /\ IsBfs(h) /\ Exhausted(h)
     /\ Branching /\ EarlyParent
     /\ Len(ast) >= 3
     /\ gens[g].out # gens[h].out

\* every node has at most one child: the tree is a single path
IsPath == \A x \in Nodes \cup {Root} : Len(Children(x)) <= 1

\* C11: on a single path both strategies yield the nodes below the root in
\* order of increasing depth, the i-th element being the node of depth i, and
\* their exhausted sequences are the same sequence of all the nodes.
C11_PathSameSequence ==
  IsPath =>
     /\ \A g \in Gens : (gens[g].status # "absent" /\ Supported(g)) =>
           /\ \A i \in 1..Len(gens[g].out) : Depth(gens[g].out[i]) = i
           /\ Exhausted(g) => Len(gens[g].out) = Len(ast)
     /\ \A g, h \in Gens :
           (IsDfs(g) /\ Exhausted(g) /\ IsBfs(h) /\ Exhausted(h)) =>
              gens[g].out = gens[h].out

C11_Witness ==
  /\ IsPath /\ Len(ast) >= 3
  /\ \E g, h \in Gens :
        /\ IsDfs(g) /\ Exhausted(g) /\ IsBfs(h) /\ Exhausted(h)
        /\ Len(gens[g].out) = Len(ast) /\ gens[g].out = gens[h].out

\* C12: for a root without children both strategies yield nothing: the first
\* pull reports the end of the enumeration and no node is ever yielded.
C12_State ==
  \A g \in Gens : (Len(ast) = 0 /\ gens[g].status # "absent" /\ Supported(g)) =>
     /\ gens[g].out = <<>>
     /\ \/ gens[g].status = "created" /\ gens[g].last = "none"
        \/ gens[g].status = "closed" /\ gens[g].last = "StopIteration"

C12_FirstPull ==
  \A g \in Gens :
     (/\ Len(ast) = 0 /\ gens[g].status = "created" /\ Supported(g)
      /\ gens'[g].status \notin {"created", "absent"}) =>
        /\ gens'[g].status = "closed"
        /\ gens'[g].last = "StopIteration"
        /\ gens'[g].out = <<>>

C12_EmptyRootYieldsNothing == []C12_State /\ [][C12_FirstPull]_vars

C12_Witness ==
  /\ Len(ast) = 0
  /\ \E g, h \in Gens :
        /\ IsDfs(g) /\ Exhausted(g) /\ gens[g].last = "StopIteration"
        /\ IsBfs(h) /\ Exhausted(h) /\ gens[h].last = "StopIteration"

\* a caller abandons a traversal and only then a traversal is started afresh:
\* generator Dropped is made, pulled any number of times and dropped; once it
\* was dropped before its end, generator Caller is made and pulled
Dropped == 2

NextAbandon ==
  \/ \E m \in Methods : gens[Dropped].last = "none" /\ Traverse(Dropped, m)
  \/ Pull(Dropped)
  \/ Discard(Dropped)
  \/ \E m \in Methods : gens[Dropped] = Abandoned /\ Traverse(Caller, m)
  \/ Pull(Caller)

AbandonSpec == Init /\ [][NextAbandon]_vars

\* C13: no step changes the tree; once a traversal was abandoned, no deque of
\* it is left, and a traversal started afterwards yields, from its first
\* element on, what it yields alone, the complete sequence at exhaustion.
C13_State ==
  /\ gens[Dropped] = Abandoned =>
        \A a \in Addrs : (\A h \in Gens : gens[h].q # a) => heap[a] = <<>>
  /\ (gens[Caller].status # "absent" /\ Supported(Caller)) =>
        /\ gens[Dropped] = Abandoned
        /\ IsPrefix(gens[Caller].out, Alone(gens[Caller].method))
        /\ Exhausted(Caller) =>
              /\ gens[Caller].out = Alone(gens[Caller].method)
              /\ Range(gens[Caller].out) = Descendants(Root)

C13_AbandonLeavesNothing == []C13_State /\ [][ast' = ast]_vars

C13_Witness ==
  /\ gens[Dropped] = Abandoned
  /\ IsBfs(Caller) /\ Exhausted(Caller)
  /\ Len(ast) >= 3 /\ Len(gens[Caller].out) = Len(ast)
  /\ \E x \in Nodes : Depth(x) >= 2

\* a breadth first generator stopped at a yield
BfsSuspended(g) == IsBfs(g) /\ gens[g].status = "suspended"

\* the nodes the current pass of g has popped so far: its last i yields
PoppedInPass(g) ==
  LET out == gens[g].out IN
  SubSeq(out, Len(out) - Last(gens[g].stack).i + 1, Len(out))

\* C14: a pass pops as many nodes as the deque held when the pass started:
\* it never pops more, the nodes it pops and those it still has to pop were
\* not enqueued during it, what it enqueues (children of the nodes it popped)
\* stays behind them in the deque, and a next pass starts only when the count
\* is used up, with the deque's length at that moment as its own count.
C14_State ==
  \A g \in Gens : BfsSuspended(g) =>
     LET f == Last(gens[g].stack)
         q == heap[gens[g].q]
         popped == Range(PoppedInPass(g))
         rest == f.len - f.i
     IN /\ 1 <= f.i /\ f.i <= f.len /\ f.i <= Len(gens[g].out)
        /\ \A j \in 1..(Len(gens[g].stack) - 1) : gens[g].stack[j].i = gens[g].stack[j].len
        /\ \A x \in popped : ast[x] \notin popped
        /\ Len(q) >= rest
        /\ \A j \in 1..Len(q) :
              IF j <= rest THEN ast[q[j]] \notin popped ELSE ast[q[j]] \in popped

C14_Step ==
  \A g \in Gens :
     (/\ BfsSuspended(g) /\ gens'[g].status = "suspended"
      /\ Len(gens'[g].stack) # Len(gens[g].stack)) =>
        /\ Len(gens'[g].stack) = Len(gens[g].stack) + 1
        /\ Last(gens[g].stack).i = Last(gens[g].stack).len
        /\ Last(gens'[g].stack).len = Len(heap[gens[g].q])
        /\ Last(gens'[g].stack).i = 1

C14_WaveBoundary == []C14_State /\ [][C14_Step]_vars

C14_Witness ==
  \E g \in Gens :
     /\ BfsSuspended(g)
     /\ Len(gens[g].stack) = 1
     /\ Last(gens[g].stack).i = 2 /\ Last(gens[g].stack).len = 2
     /\ Len(heap[gens[g].q]) >= 2

\* the number of nodes the activations of g have popped: the sum of their
\* loop counters
RECURSIVE SumOfCounters(_)
SumOfCounters(stack) ==
  IF stack = <<>> THEN 0 ELSE Last(stack).i + SumOfCounters(ButLast(stack))

\* C15: a generator does nothing before its first pull, a pull yields at most
\* one node, and stopped at a yield the walker has done no more than produce
\* that node. Breadth first: as many nodes are popped as are yielded, and the
\* nodes enqueued so far (yielded or still queued) are exactly the children
\* of the root and of the popped nodes, each once. Depth first: the innermost
\* activation is the one whose loop yielded the node; none exists for the
\* node itself yet.
C15_State ==
  \A g \in Gens :
     /\ gens[g].status = "created" =>
           gens[g].stack = <<>> /\ gens[g].q = NoDeque /\ gens[g].out = <<>>
     /\ BfsSuspended(g) =>
           LET enq == gens[g].out \o heap[gens[g].q] IN
           /\ SumOfCounters(gens[g].stack) = Len(gens[g].out)
           /\ NoDup(enq)
           /\ Range(enq) = {y \in Nodes : ast[y] = Root \/ ast[y] \in Range(gens[g].out)}
     /\ (IsDfs(g) /\ gens[g].status = "suspended") =>
           LET f == Last(gens[g].stack) IN
           /\ 1 <= f.i /\ f.i <= f.len
           /\ Children(f.node)[f.i] = Last(gens[g].out)
           /\ \A j \in 1..Len(gens[g].stack) : gens[g].stack[j].node # Last(gens[g].out)

C15_Step ==
  \A g \in Gens :
     (gens[g].status \in {"created", "suspended"} /\ gens'[g].status # "absent") =>
        /\ IsPrefix(gens[g].out, gens'[g].out)
        /\ Len(gens'[g].out) <= Len(gens[g].out) + 1
        /\ (gens'[g] # gens[g] /\ gens'[g].status = "suspended") =>
              Len(gens'[g].out) = Len(gens[g].out) + 1

C15_Lazy == []C15_State /\ [][C15_Step]_vars

C15_Witness ==
  \E g, h \in Gens :
     /\ BfsSuspended(g) /\ Len(gens[g].out) = 2 /\ Len(gens[g].stack) = 2
     /\ Len(heap[gens[g].q]) >= 1
     /\ IsDfs(h) /\ gens[h].status = "suspended" /\ Len(gens[h].out) = 2
     /\ Len(gens[h].stack) = 2

\* the depth of the tree: the depth of its deepest node, the root having depth 0
TreeDepth ==
  CHOOSE d \in 0..Len(ast) :
     /\ \E x \in Nodes \cup {Root} : Depth(x) = d
     /\ \A x \in Nodes \cup {Root} : Depth(x) <= d

\* C16 as stated: the number of nested activations of the depth first walker
\* never exceeds the depth of the tree and reaches it in a full traversal.
C16_StackEqualsDepth ==
  \A g \in Gens : IsDfs(g) =>
     /\ gens[g].peak <= TreeDepth
     /\ Exhausted(g) => gens[g].peak = TreeDepth

\* C16 amended: stopped at a yield, the number of nested activations is the
\* depth of the node just yielded, so at most the depth of the tree; inside a
\* pull one more activation is entered, for the yielded node itself, so the
\* number never exceeds the depth of the tree plus one and reaches exactly
\* that in a full traversal.
C16_StackDepth ==
  \A g \in Gens : IsDfs(g) =>
     /\ gens[g].status = "suspended" =>
           /\ Len(gens[g].stack) = Depth(Last(gens[g].out))
           /\ Len(gens[g].stack) <= TreeDepth
           /\ Len(gens[g].stack) <= gens[g].peak
     /\ gens[g].peak <= TreeDepth + 1
     /\ Exhausted(g) => gens[g].peak = TreeDepth + 1

C16_Witness ==
  \E g \in Gens :
     /\ IsDfs(g) /\ Exhausted(g)
     /\ TreeDepth >= 2 /\ Branching
     /\ gens[g].peak = TreeDepth + 1

\* the nodes of depth d
Level(d) == {x \in Nodes : Depth(x) = d}

C18_RootNotYielded ==
  \A g \in Gens : (gens[g].status # "absent" /\ Supported(g)) =>
     /\ Root \notin Range(gens[g].out)
     /\ \A x \in Range(gens[g].out) : x \in Descendants(Root) /\ Depth(x) >= 1
     /\ gens[g].out # <<>> => gens[g].out[1] = Children(Root)[1]
     /\ (gens[g].status # "created" /\ Children(Root) # <<>>) => gens[g].out # <<>>

C18_Witness ==
  \E g, h \in Gens :
     /\ IsDfs(g) /\ IsBfs(h) /\ Exhausted(g) /\ Exhausted(h)
     /\ Len(Children(Root)) >= 2
     /\ gens[g].out[1] = Children(Root)[1] /\ gens[h].out[1] = Children(Root)[1]

\* what the deque of g holds at the points of its run from this state up to
\* the next yield: as seeded, before the first pop; as it is at a yield; and
\* after the next popleft, before the children are appended
QueuePoints(g) ==
  IF gens[g].status = "created" THEN {BfsSeed(1, heap)[1]}
  ELSE LET q == heap[gens[g].q] IN
       IF q = <<>> THEN {q} ELSE {q, Tail(q)}

\* no node twice, depths not decreasing from front to back, at most two
\* consecutive levels
QueueShape(q) ==
  /\ NoDup(q)
  /\ \A i, j \in 1..Len(q) : i < j => Depth(q[i]) <= Depth(q[j])
  /\ q # <<>> => Depth(q[Len(q)]) <= Depth(q[1]) + 1

\* C19: at every point of a breadth first traversal the deque holds no node
\* twice and its nodes have depths that do not decrease from front to back
\* and span at most two consecutive levels; at every yield it holds exactly
\* the nodes not yet yielded whose parent is the root or was yielded.
C19_QueueInvariant ==
  \A g \in Gens : (IsBfs(g) /\ gens[g].status \in {"created", "suspended"}) =>
     /\ \A q \in QueuePoints(g) : QueueShape(q)
     /\ gens[g].status = "suspended" =>
           Range(heap[gens[g].q]) =
              {y \in Nodes : /\ y \notin Range(gens[g].out)
                             /\ ast[y] = Root \/ ast[y] \in Range(gens[g].out)}

C19_Witness ==
  \E g \in Gens :
     /\ BfsSuspended(g)
     /\ Len(heap[gens[g].q]) >= 3
     /\ Depth(heap[gens[g].q][1]) = 1
     /\ Depth(heap[gens[g].q][3]) = 2

====
